---------------------------- MODULE Spec2Model ----------------------------
(***************************************************************************)
(* Model of helper/blockdevice.cpp (Fedora Media Writer): the primary      *)
(* partition table manager (read, addPartition, fillChs) and the FAT32     *)
(* overlay formatter (formatOverlayPartition, writeZeros).                 *)
(*                                                                         *)
(* quint64 / std::size_t values are kept as four 16-bit limbs, least       *)
(* significant first, so that byte offsets of multi-gigabyte partitions    *)
(* are computed exactly, with the wrap-around of unsigned arithmetic.      *)
(***************************************************************************)
EXTENDS Integers, Sequences, FiniteSets

VARIABLES
    table,          \* the four 16-byte slots of the on-disk partition table
    m_entries,      \* BlockDevice::m_entries
    call,           \* the last table operation: arguments, outcome, state before it
    reads,          \* number of read() calls made on the instance
    calls,          \* number of table operations made on the instance
    failed,         \* number of table operations that met an I/O fault
    m_bytesWritten, \* BlockDevice::m_bytesWritten
    m_totalBytes,   \* BlockDevice::m_totalBytes
    fmt             \* the last formatOverlayPartition call: inputs, layout, writes, outcome

vars == <<table, m_entries, call, reads, calls, failed, m_bytesWritten, m_totalBytes, fmt>>

-----------------------------------------------------------------------------
(* Bounds of the model. *)

\* m_entries is not allowed to grow beyond this many entries (read() is disabled
\* when it could add more).
MaxEntries == 8
\* A session makes at most this many table operations (read, addPartition).
MaxCalls == 3
\* At most this many of them meet an I/O fault.
MaxFaults == 1
\* Partition sizes are sampled at 0 .. MaxDelta sectors above each base size.
MaxDelta == 2

-----------------------------------------------------------------------------
(* Constants of blockdevice.h. *)

SECTOR_SIZE == 512
MAX_PARTITIONS == 4
PARTITION_ENTRY_SIZE == 16
PARTITION_ENTRY_OFFSET == 446
NUM_HEADS == 255
NUM_SECTORS == 63

-----------------------------------------------------------------------------
(* 64-bit unsigned arithmetic on limbs. *)

LimbBase == 256 * 256

\* The quint64 with value n, for 0 <= n < 2^31.
U64(n) == <<n % LimbBase, n \div LimbBase, 0, 0>>

RECURSIVE AddLimbs(_, _, _, _)
AddLimbs(a, b, i, carry) ==
    IF i > 4 THEN <<>>
    ELSE LET s == a[i] + b[i] + carry
         IN  <<s % LimbBase>> \o AddLimbs(a, b, i + 1, s \div LimbBase)

\* a + b modulo 2^64
Add(a, b) == AddLimbs(a, b, 1, 0)

RECURSIVE SubLimbs(_, _, _, _)
SubLimbs(a, b, i, borrow) ==
    IF i > 4 THEN <<>>
    ELSE LET d == a[i] - b[i] - borrow
         IN  <<d % LimbBase>> \o SubLimbs(a, b, i + 1, IF d < 0 THEN 1 ELSE 0)

\* a - b modulo 2^64
Sub(a, b) == SubLimbs(a, b, 1, 0)

RECURSIVE MulLimbs(_, _, _, _)
MulLimbs(a, k, i, carry) ==
    IF i > 4 THEN <<>>
    ELSE LET p == a[i] * k + carry
         IN  <<p % LimbBase>> \o MulLimbs(a, k, i + 1, p \div LimbBase)

\* a * k modulo 2^64, for 0 <= k < 2^15
Mul(a, k) == MulLimbs(a, k, 1, 0)

\* <<quotient limbs above i, remainder>> of the long division of a by d, from limb 4 down
RECURSIVE DivLimbs(_, _, _, _)
DivLimbs(a, d, i, rem) ==
    IF i < 1 THEN <<<<>>, rem>>
    ELSE LET cur  == rem * LimbBase + a[i]
             rest == DivLimbs(a, d, i - 1, cur % d)
         IN  <<rest[1] \o <<cur \div d>>, rest[2]>>

\* a / d and a % d for 0 < d < 2^15
Div(a, d) == DivLimbs(a, d, 4, 0)[1]
Mod(a, d) == DivLimbs(a, d, 4, 0)[2]

RECURSIVE LessFrom(_, _, _)
LessFrom(a, b, i) ==
    IF i < 1 THEN FALSE
    ELSE IF a[i] # b[i] THEN a[i] < b[i]
    ELSE LessFrom(a, b, i - 1)

Less(a, b) == LessFrom(a, b, 4)
LessEq(a, b) == ~Less(b, a)
Min(a, b) == IF Less(b, a) THEN b ELSE a

RECURSIVE BitAnd(_, _)
BitAnd(x, y) ==
    IF x = 0 \/ y = 0 THEN 0
    ELSE (x % 2) * (y % 2) + 2 * BitAnd(x \div 2, y \div 2)

\* byte i (0 = least significant) of a
Byte(a, i) == (a[(i \div 2) + 1] \div (IF i % 2 = 0 THEN 1 ELSE 256)) % 256

\* static_cast<quint32>: the low 32 bits
Low32(a) == <<a[1], a[2], 0, 0>>

\* conversion to int: the low 32 bits as a two's complement number
ToInt(a) ==
    IF a[2] >= 32768 THEN (a[2] - LimbBase) * LimbBase + a[1]
    ELSE a[2] * LimbBase + a[1]

\* conversion of an int to quint64 (sign extension)
FromInt(n) ==
    IF n >= 0 THEN U64(n)
    ELSE <<n % LimbBase, (n \div LimbBase) % LimbBase, LimbBase - 1, LimbBase - 1>>

\* C++ integer division of ints (truncation toward zero), b > 0
IntDiv(a, b) == IF a >= 0 THEN a \div b ELSE -((-a) \div b)

-----------------------------------------------------------------------------
(* Partition table entries. *)

\* PartitionEntry: 16 bytes; entry[k + 1] here is entry[k] of the code.
ZeroEntry == [k \in 1..PARTITION_ENTRY_SIZE |-> 0]

\* A Linux partition written by another tool: bootable, type 0x83, CHS unused,
\* LBA 2048, 4096 sectors.
ForeignEntry == <<128, 254, 255, 255, 131, 254, 255, 255, 0, 8, 0, 0, 0, 16, 0, 0>>

isEmtpy(entry) == \A k \in 1..Len(entry) : entry[k] = 0

\* The same four bytes, most significant first.
ToBigEndian(v) == <<Byte(v, 3), Byte(v, 2), Byte(v, 1), Byte(v, 0)>>

\* qToLittleEndian(quint32) followed by memcpy: the four bytes, least significant first
ToLittleEndian(v) == <<Byte(v, 0), Byte(v, 1), Byte(v, 2), Byte(v, 3)>>

\* The quint32 a little-endian reader decodes from entry bytes at + 0 .. at + 3
\* (at counted as in the code, from 0).
FromLittleEndian(entry, at) ==
    <<entry[at + 1] + 256 * entry[at + 2], entry[at + 3] + 256 * entry[at + 4], 0, 0>>

\* The three bytes packed for head, sector and cylinder (the ccssssss layout).
PackChs(head, sector, cylinder) ==
    << head % 256,
       (((cylinder \div 256) % 4) * 64) + (sector % 64),
       cylinder % 256 >>

\* BlockDevice::fillChs(chs, position).  cylinder is an int, of which only the low
\* ten bits reach the packed bytes.
fillChs(position) ==
    LET head     == Mod(Div(position, NUM_SECTORS), NUM_HEADS)
        sector   == Mod(position, NUM_SECTORS) + 1
        cylinder == Div(position, NUM_HEADS * NUM_SECTORS)[1]
    IN  PackChs(head, sector, cylinder)

lbaOf(offset) == Low32(Div(offset, SECTOR_SIZE))
countOf(size) == Low32(Div(size, SECTOR_SIZE))

\* The entry addPartition builds (lines 103-113).
NewEntry(offset, size) ==
    <<0>> \o fillChs(offset) \o <<11>> \o fillChs(Add(offset, size))
        \o ToLittleEndian(lbaOf(offset)) \o ToLittleEndian(countOf(size))

\* A test that lets one entry too many in.
TableFullOffByOne(num) == num > MAX_PARTITIONS + 1

\* The table is full for an entry that would be number num.
TableFull(num) == num > MAX_PARTITIONS

\* The slot addPartition seeks to for entry number num.
SlotOf(num) == num - 1

\* seekEntry(index): the byte position sought.
seekEntry(index) == PARTITION_ENTRY_OFFSET + PARTITION_ENTRY_SIZE * index

\* The entries read() appends from slots first .. last - 1, in on-disk order.
RECURSIVE ReadSlots(_, _, _)
ReadSlots(t, first, last) ==
    IF first >= last THEN <<>>
    ELSE (IF isEmtpy(t[first]) THEN <<>> ELSE <<t[first]>>) \o ReadSlots(t, first + 1, last)

\* The first n bytes of entry over the old bytes of a slot (a write of n bytes).
Overwrite(old, entry, n) ==
    [k \in 1..PARTITION_ENTRY_SIZE |-> IF k <= n THEN entry[k] ELSE old[k]]

-----------------------------------------------------------------------------
(* The FAT32 layout computed by formatOverlayPartition. *)

RESERVED_SECTORS == 32
NR_FATS == 2
FIRST_CLUSTER == 3
ranges == <<260, 1024 * 8, 1024 * 16, 1024 * 32>>
fsinfoOffset == 480
bootCodeSize == 420
CHUNK_SIZE == 512

\* The largest quint32, 0xffffffffULL.
MaxU32 == <<LimbBase - 1, LimbBase - 1, 0, 0>>

\* The lambda align: (number + alignment - 1) & ~(alignment - 1), 0 < alignment < 2^15.
align(number, alignment) ==
    LET n == Add(number, U64(alignment - 1))
    IN  <<n[1] - BitAnd(n[1], alignment - 1), n[2], n[3], n[4]>>

\* The lambda getbyte(int number, int i), 0 <= i <= 3: a byte of the low 32 bits.
getbyte(number, i) == Byte(Low32(number), i)

\* The lambda divCeil on ints.
divCeil(a, b) == IntDiv(a + b - 1, b)

\* qLowerBound(ranges.begin(), ranges.end(), sizeMb) - ranges.begin(): the number of
\* thresholds below sizeMb.
LowerBound(sizeMb) == Cardinality({i \in 1..Len(ranges) : ranges[i] < sizeMb})

\* sizeMb and sectorsPerCluster (lines 159-161).
SizeMb(size) == ToInt(Div(Div(size, 1024), 1024))
SectorsPerCluster(size) ==
    LET found == LowerBound(SizeMb(size))
    IN  IF found = 0 THEN 1 ELSE found * 8

\* clusters (line 167) for a partition of numSectors sectors.
Clusters(numSectors, clusterSize) ==
    LET fatdata == Sub(numSectors, U64(RESERVED_SECTORS))
    IN  Div(Add(Mul(fatdata, SECTOR_SIZE), U64(NR_FATS * 8)), clusterSize + NR_FATS * 4)

\* The sectors one FAT needs before alignment: divCeil((clusters + 2) * 4, SECTOR_SIZE).
FatSectors(clusters) == divCeil(ToInt(Mul(Add(clusters, U64(2)), 4)), SECTOR_SIZE)

\* fatlength (line 168).
FatLength(clusters, sectorsPerCluster) ==
    align(FromInt(FatSectors(clusters)), sectorsPerCluster)

\* headerSize (line 171).
HeaderSize(fatlength, sectorsPerCluster) ==
    Mul(Add(Add(U64(RESERVED_SECTORS), Mul(fatlength, 2)), U64(sectorsPerCluster)),
        SECTOR_SIZE)

\* maxFileSize (lines 172-173).
MaxFileSize(size, headerSize) ==
    align(Sub(Sub(Min(Sub(size, headerSize), MaxU32), U64(SECTOR_SIZE)), U64(1)),
          SECTOR_SIZE)

\* used (lines 279-281): the bytes of one FAT that are not zero padding.
Used(nextFreeCluster) ==
    Add(Add(U64(12), Mul(Sub(nextFreeCluster, U64(FIRST_CLUSTER + 1)), 4)), U64(4))

\* Every value lines 158-176 derive from the partition size.
Layout(size) ==
    LET spc         == SectorsPerCluster(size)
        clusterSize == SECTOR_SIZE * spc
        numSectors  == Div(size, SECTOR_SIZE)
        clusters    == Clusters(numSectors, clusterSize)
        fatlength   == FatLength(clusters, spc)
        headerSize  == HeaderSize(fatlength, spc)
        maxFileSize == MaxFileSize(size, headerSize)
    IN  [ sectorsPerCluster |-> spc,
          clusterSize       |-> clusterSize,
          numSectors        |-> numSectors,
          clusters          |-> clusters,
          fatlength         |-> fatlength,
          headerSize        |-> headerSize,
          maxFileSize       |-> maxFileSize,
          fileZeros         |-> Min(maxFileSize, U64(64 * 1024)),
          nextFreeCluster   |-> Add(Add(U64(FIRST_CLUSTER), Div(maxFileSize, clusterSize)),
                                    U64(1)),
          numFreeClusters   |-> Add(Div(Sub(size, headerSize), clusterSize), U64(1)) ]

\* The FAT time and date words (lines 236-237) of a UTC date and time.
FatTime(dt) == ((dt.second + 1) \div 2) + (dt.minute * 32) + (dt.hour * 2048)
FatDate(dt) == dt.day + (dt.month * 32) + (dt.year - 1980)

\* quint8 lo = v & 0xff; quint8 hi = v >> 8.
LoByte(v) == v % 256
HiByte(v) == (v \div 256) % 256

\* fsinfo (lines 184-191).
FsInfo(L) ==
    <<114, 114, 65, 97>>
        \o [i \in 1..4 |-> getbyte(L.numFreeClusters, i - 1)]
        \o [i \in 1..4 |-> getbyte(L.nextFreeCluster, i - 1)]

\* bootSector (lines 209-216).
BootSector(L, volumeId) ==
    <<235, 88, 144, 109, 107, 102, 115, 46, 102, 97, 116, 0, 2>>
        \o <<L.sectorsPerCluster % 256>>
        \o <<32, 0, 2, 0, 0, 0, 0, 248, 0, 0, 62, 0, 247, 0, 0, 0, 0, 0>>
        \o [i \in 1..4 |-> getbyte(L.numSectors, i - 1)]
        \o [i \in 1..4 |-> getbyte(L.fatlength, i - 1)]
        \o <<0, 0, 0, 0, 2, 0, 0, 0, 1, 0, 6, 0, 0, 0, 0, 0, 0, 0, 0, 0, 0, 0, 0, 0,
             128, 0, 41>>
        \o [i \in 1..4 |-> getbyte(volumeId, i - 1)]
        \o <<79, 86, 69, 82, 76, 65, 89, 32, 32, 32, 32, 70, 65, 84, 51, 50, 32, 32, 32>>

\* rootDir (lines 244-246).
RootDir(dt) ==
    LET tlo == LoByte(FatTime(dt))
        thi == HiByte(FatTime(dt))
        dlo == LoByte(FatDate(dt))
        dhi == HiByte(FatDate(dt))
    IN  <<79, 86, 69, 82, 76, 65, 89, 32, 32, 32, 32, 8, 0, 0, tlo, thi, dlo, dhi,
          dlo, dhi, 0, 0, tlo, thi, dlo, dhi, 0, 0, 0, 0, 0, 0>>

\* fileEntry (lines 251-253).
FileEntry(L, dt) ==
    LET tlo == LoByte(FatTime(dt))
        thi == HiByte(FatTime(dt))
        dlo == LoByte(FatDate(dt))
        dhi == HiByte(FatDate(dt))
    IN  <<79, 86, 69, 82, 76, 65, 89, 32, 73, 77, 71, 32, 0, 0, tlo, thi, dlo, dhi,
          dlo, dhi, 0, 0, tlo, thi, dlo, dhi, FIRST_CLUSTER, 0>>
            \o [i \in 1..4 |-> getbyte(L.maxFileSize, i - 1)]

-----------------------------------------------------------------------------
(* The writes of formatOverlayPartition. *)

\* A fault makes one ::write of a run return less than it was asked for: the first
\* or the last write of the seg-th step of the write sequence returns -1 ("fail"),
\* 0 ("zero") or one byte less than requested ("short").
NoFault == [seg |-> 0, last |-> FALSE, ret |-> "none"]

\* What ::write returns under a fault for a request of req bytes.
Returned(ret, req) ==
    IF ret = "fail" THEN -1
    ELSE IF ret = "zero" THEN 0
    ELSE req - 1

\* writeZeros, line 74: the test that makes a ::write result fatal.
ZerosWriteFailed(len, requested) == len < 0

\* writeBytes: the test that makes a ::write result fatal.
BytesWriteFailed(len, requested) == len # requested

\* The progress state a write sequence runs on.  written: m_bytesWritten; physical:
\* the bytes ::write reported written, modulo 2^64; overflow: they are 2^64 or
\* more; progress: onProgress has been called; exceeded: some onProgress call saw
\* m_bytesWritten > m_totalBytes; faulted: some ::write returned another count than
\* requested; completed: the steps of the write sequence that were completed.
StartRun ==
    [written |-> U64(0), physical |-> U64(0), overflow |-> FALSE, status |-> "running",
     progress |-> FALSE, exceeded |-> FALSE, faulted |-> FALSE, completed |-> 0]

\* The run after n more bytes were written, in writes that each added their count
\* to m_bytesWritten and called onProgress.  The counter rises write by write, so
\* it exceeds total on the way if it ends above total or wraps around.
Advance(run, n, total) ==
    LET w == Add(run.written, n)
        p == Add(run.physical, n)
    IN  [run EXCEPT !.written = w, !.physical = p,
                    !.overflow = run.overflow \/ Less(p, run.physical),
                    !.progress = TRUE,
                    !.exceeded = run.exceeded \/ Less(total, w) \/ Less(w, run.written)]

\* BlockDevice::writeZeros(size) under fault f (NoFault: every write is complete, on
\* a device that takes whatever is written to it).
writeZeros(run, size, f, total) ==
    LET chunks   == Div(Add(size, U64(CHUNK_SIZE - 1)), CHUNK_SIZE)
        before   == IF f.last THEN Mul(Sub(chunks, U64(1)), CHUNK_SIZE) ELSE U64(0)
        req      == ToInt(Min(U64(CHUNK_SIZE), Sub(size, before)))
        len      == Returned(f.ret, req)
    IN  IF size = U64(0) THEN run
        ELSE IF f.seg = 0 THEN Advance(run, size, total)
        ELSE IF ZerosWriteFailed(len, req)
             THEN [(IF before = U64(0) THEN run ELSE Advance(run, before, total))
                       EXCEPT !.status = "WriteFailure", !.faulted = TRUE]
        ELSE [Advance(run, Sub(size, U64(req - len)), total) EXCEPT !.faulted = TRUE]

\* count calls of writeBytes, each of n bytes, under fault f.
writeBytes(run, n, count, f, total) ==
    LET before == IF f.last THEN Sub(count, U64(1)) ELSE U64(0)
        len    == Returned(f.ret, n)
        sofar  == IF before = U64(0) THEN run ELSE Advance(run, Mul(before, n), total)
    IN  IF count = U64(0) THEN run
        ELSE IF f.seg = 0 THEN Advance(run, Mul(count, n), total)
        ELSE IF BytesWriteFailed(len, n)
             THEN [sofar EXCEPT !.status = "WriteFailure", !.faulted = TRUE,
                                !.physical = Add(@, U64(IF len > 0 THEN len ELSE 0))]
        ELSE Advance(run, Mul(count, n), total)

Bytes(n) == [kind |-> "bytes", len |-> n, count |-> U64(1)]
Zeros(size) == [kind |-> "zeros", len |-> size, count |-> U64(1)]

\* One copy of the boot sector: bootSector, bootCode, padding, bootSign (lines 259-262).
BootSectorWrites ==
    <<Bytes(90), Bytes(129), Zeros(U64(bootCodeSize - 129)), Bytes(2)>>

\* One FAT (lines 287-294): the three reserved entries, the chain of clusters
\* FIRST_CLUSTER + 1 .. nextFreeCluster - 1, the end of chain, the padding.
FatWrites(L) ==
    << Bytes(12),
       [kind |-> "bytes", len |-> 4,
        count |-> IF Less(U64(FIRST_CLUSTER + 1), L.nextFreeCluster)
                  THEN Sub(L.nextFreeCluster, U64(FIRST_CLUSTER + 1)) ELSE U64(0)],
       Bytes(4),
       Zeros(Sub(Mul(L.fatlength, SECTOR_SIZE), Used(L.nextFreeCluster))) >>

\* The write sequence of lines 259-300.
WritePlan(L) ==
    BootSectorWrites
        \o <<Bytes(4), Zeros(U64(fsinfoOffset)), Bytes(12), Zeros(U64(14)), Bytes(2)>>
        \o <<Zeros(U64(SECTOR_SIZE * 4))>>
        \o BootSectorWrites
        \o <<Zeros(U64(SECTOR_SIZE * 25))>>
        \o FatWrites(L) \o FatWrites(L)
        \o <<Bytes(32), Bytes(32), Zeros(U64(L.clusterSize - 32 - 32)), Zeros(L.fileZeros)>>

\* The run after steps i .. Len(plan) of the plan, stopping at the first failure.
RECURSIVE RunPlan(_, _, _, _, _)
RunPlan(plan, i, run, fault, total) ==
    IF i > Len(plan) \/ run.status # "running" THEN run
    ELSE LET f    == IF fault.seg = i THEN fault ELSE NoFault
             step == IF plan[i].kind = "zeros"
                     THEN writeZeros(run, plan[i].len, f, total)
                     ELSE writeBytes(run, plan[i].len, plan[i].count, f, total)
             next == IF step.status = "running"
                     THEN [step EXCEPT !.completed = i] ELSE step
         IN  RunPlan(plan, i + 1, next, fault, total)

\* The number of steps of the write sequence (the same for every size).
PlanLength == Len(WritePlan(Layout(Mul(U64(2048), SECTOR_SIZE))))

-----------------------------------------------------------------------------
(* Inputs. *)

Sectors(n) == Mul(n, SECTOR_SIZE)

\* (offset, size) pairs, in bytes.
AddInputs ==
    { <<Sectors(U64(1)), Sectors(U64(1))>>,
      <<Sectors(U64(2048)), Sectors(U64(524288))>>,
      <<Sectors(U64(16450496)), Sectors(U64(63))>>,
      <<Sectors(<<65535, 65535, 0, 0>>), Sectors(<<65535, 65535, 0, 0>>)>>,
      <<Sectors(<<5, 0, 1, 0>>), Sectors(<<0, 0, 1, 0>>)>>,
      <<U64(1000), U64(1000)>> }

\* What ::write returns for the 16 bytes of an entry: an error, a short count, all.
WriteReturns == {-1, 7, PARTITION_ENTRY_SIZE}

NoCall ==
    [op |-> "none", offset |-> U64(0), size |-> U64(0), result |-> "none",
     preTable |-> <<>>, preEntries |-> <<>>, seeks |-> 0, writes |-> 0, slot |-> -1,
     sought |-> -1]

\* Partition sizes in sectors: the smallest partition that holds the header and a
\* sector of file, sizes at and just above each threshold of ranges, a size of
\* 8 sectors per cluster whose 67582 clusters and two reserved entries fill 528 FAT
\* sectors to the last entry, and the largest sizes a partition entry can describe.
BaseSectors ==
    { U64(36), U64(2048), U64(524288), U64(532480), U64(534528), U64(541746),
      U64(16777216),
      U64(16779264), U64(33554432), U64(33556480), U64(67108864), U64(67110912),
      <<63488 - MaxDelta, 65535, 0, 0>> }

FormatSizes ==
    { Sectors(Add(b, U64(d))) : b \in BaseSectors, d \in 0..MaxDelta }
        \cup { Add(Sectors(U64(2048)), U64(100)) }

\* Sizes formatted under write faults.
FaultSizes == { Sectors(U64(36)), Sectors(U64(2048)), Sectors(U64(534528)) }

DateTimes ==
    [ year : {1980, 2016, 2107}, month : {1, 12}, day : {1, 31},
      hour : {0, 23}, minute : {59}, second : {0, 59} ]

DateTime0 == [year |-> 2016, month |-> 1, day |-> 1, hour |-> 0, minute |-> 59, second |-> 0]

\* QDateTime::currentMSecsSinceEpoch() & 0xffffffff
VolumeIds == { <<22136, 4660, 0, 0>> }

Faults ==
    {NoFault} \cup [seg : 1..PlanLength, last : BOOLEAN, ret : {"fail", "zero", "short"}]

NoLayout ==
    [ sectorsPerCluster |-> 0, clusterSize |-> 0, numSectors |-> U64(0),
      clusters |-> U64(0), fatlength |-> U64(0), headerSize |-> U64(0),
      maxFileSize |-> U64(0), fileZeros |-> U64(0), nextFreeCluster |-> U64(0),
      numFreeClusters |-> U64(0) ]

NoFormat ==
    [op |-> "none", size |-> U64(0), dt |-> DateTime0, volumeId |-> U64(0),
     seekOk |-> TRUE, fault |-> NoFault,
     layout |-> NoLayout, outcome |-> "none", run |-> StartRun,
     bootSector |-> <<>>, fsinfo |-> <<>>, rootDir |-> <<>>, fileEntry |-> <<>>]

Request(size, dt, volumeId, seekOk, fault) ==
    [NoFormat EXCEPT !.op = "request", !.size = size, !.dt = dt,
                     !.volumeId = volumeId, !.seekOk = seekOk, !.fault = fault]

\* The calls of formatOverlayPartition the model makes: every size at every date
\* with a device that writes all it is asked to, and the sizes of FaultSizes with
\* each fault and with a failing seek.
FormatRequests ==
    { Request(size, dt, volumeId, TRUE, NoFault) :
        size \in FormatSizes, dt \in DateTimes, volumeId \in VolumeIds }
    \cup { Request(size, DateTime0, volumeId, TRUE, fault) :
        size \in FaultSizes, volumeId \in VolumeIds, fault \in Faults }
    \cup { Request(size, DateTime0, volumeId, FALSE, NoFault) :
        size \in FaultSizes, volumeId \in VolumeIds }

InitTable ==
    /\ table \in [0..(MAX_PARTITIONS - 1) -> {ZeroEntry, ForeignEntry}]
    /\ m_entries = <<>>
    /\ call = NoCall
    /\ reads = 0
    /\ calls = 0
    /\ failed = 0
    /\ m_bytesWritten = U64(0)
    /\ m_totalBytes = U64(0)
    /\ fmt = NoFormat

-----------------------------------------------------------------------------
(* Table operations. *)

\* BlockDevice::read().  seekOk: lseek succeeds; failAt: the slot whose ::read
\* comes back short (MAX_PARTITIONS: none does).
Read ==
    /\ calls < MaxCalls
    /\ Len(m_entries) + MAX_PARTITIONS <= MaxEntries
    /\ \E seekOk \in BOOLEAN, failAt \in 0..MAX_PARTITIONS :
          LET fault  == ~seekOk \/ failAt < MAX_PARTITIONS
              result == IF ~seekOk THEN "SeekFailure"
                        ELSE IF failAt < MAX_PARTITIONS THEN "ReadFailure"
                        ELSE "ok"
          IN  /\ seekOk \/ failAt = MAX_PARTITIONS
              /\ fault => failed < MaxFaults
              /\ m_entries' = IF seekOk THEN m_entries \o ReadSlots(table, 0, failAt)
                                        ELSE m_entries
              /\ failed' = IF fault THEN failed + 1 ELSE failed
              /\ call' = [op |-> "read", offset |-> U64(0), size |-> U64(0),
                          result |-> result, preTable |-> table,
                          preEntries |-> m_entries, seeks |-> 1, writes |-> 0,
                          slot |-> -1, sought |-> seekEntry(0)]
    /\ reads' = reads + 1
    /\ calls' = calls + 1
    /\ UNCHANGED <<table, m_bytesWritten, m_totalBytes, fmt>>

\* BlockDevice::addPartition(offset, size).  seekOk: lseek succeeds; ret: what
\* ::write returns.
AddPartition ==
    /\ calls < MaxCalls
    /\ \E input \in AddInputs, seekOk \in BOOLEAN, ret \in WriteReturns :
          LET offset == input[1]
              size   == input[2]
              entry  == NewEntry(offset, size)
              num    == Len(m_entries) + 1
              full   == TableFull(num)
              slot   == SlotOf(num)
              fault  == ~full /\ (~seekOk \/ ret # PARTITION_ENTRY_SIZE)
              result == IF full THEN "TableFull"
                        ELSE IF ~seekOk THEN "SeekFailure"
                        ELSE IF ret # PARTITION_ENTRY_SIZE THEN "WriteFailure"
                        ELSE "ok"
              wrote  == ~full /\ seekOk
          IN  /\ (full \/ ~seekOk) => ret = PARTITION_ENTRY_SIZE
              /\ full => seekOk
              /\ fault => failed < MaxFaults
              /\ m_entries' = IF full THEN m_entries ELSE Append(m_entries, entry)
              /\ table' = IF wrote /\ ret > 0 /\ slot \in DOMAIN table
                            THEN [table EXCEPT ![slot] = Overwrite(@, entry, ret)]
                            ELSE table
              /\ failed' = IF fault THEN failed + 1 ELSE failed
              /\ call' = [op |-> "add", offset |-> offset, size |-> size,
                          result |-> result, preTable |-> table,
                          preEntries |-> m_entries,
                          seeks |-> IF full THEN 0 ELSE 1,
                          writes |-> IF wrote THEN 1 ELSE 0,
                          slot |-> IF wrote THEN slot ELSE -1,
                          sought |-> IF full THEN -1 ELSE seekEntry(slot)]
    /\ calls' = calls + 1
    /\ UNCHANGED <<reads, m_bytesWritten, m_totalBytes, fmt>>

\* BlockDevice::formatOverlayPartition(offset, size), applied to the pending request
\* (the size, the clock and what the device will answer).
formatOverlayPartition ==
    /\ fmt.op = "request"
    /\ LET size  == fmt.size
           L     == Layout(size)
           total == Add(L.headerSize, L.fileZeros)
           run   == RunPlan(WritePlan(L), 1, StartRun, fmt.fault, total)
       IN  /\ m_bytesWritten' = IF fmt.seekOk THEN run.written ELSE m_bytesWritten
           /\ m_totalBytes' = IF fmt.seekOk THEN total ELSE m_totalBytes
           /\ fmt' = [fmt EXCEPT
                        !.op = "format",
                        !.layout = L,
                        !.outcome = IF ~fmt.seekOk THEN "SeekFailure"
                                    ELSE IF run.status = "running" THEN "ok"
                                    ELSE run.status,
                        !.run = IF fmt.seekOk THEN run ELSE StartRun,
                        !.bootSector = BootSector(L, fmt.volumeId),
                        !.fsinfo = FsInfo(L),
                        !.rootDir = RootDir(fmt.dt),
                        !.fileEntry = FileEntry(L, fmt.dt)]
    /\ UNCHANGED <<table, m_entries, call, reads, calls, failed>>

Next == Read \/ AddPartition

\* A session on the partition table.
Spec == InitTable /\ [][Next]_vars

InitFormat ==
    /\ table = [i \in 0..(MAX_PARTITIONS - 1) |-> ZeroEntry]
    /\ m_entries = <<>>
    /\ call = NoCall
    /\ reads = 0
    /\ calls = 0
    /\ failed = 0
    /\ m_bytesWritten = U64(0)
    /\ m_totalBytes = U64(0)
    /\ fmt \in FormatRequests

NextFormat == formatOverlayPartition

\* One call of the formatter, which reads and writes none of the table state, for
\* each request.
SpecFormat == InitFormat /\ [][NextFormat]_vars

-----------------------------------------------------------------------------
(* Properties of the partition table manager, checked under Spec. *)

Aligned(v) == Mod(v, SECTOR_SIZE) = 0
FitsU32(v) == v[3] = 0 /\ v[4] = 0

\* The slots whose bytes the last call changed.
ChangedSlots == {i \in DOMAIN table : table[i] # call.preTable[i]}

\* The instance has made exactly two calls without a fault, read() and then a
\* successful addPartition.
AppendAfterRead ==
    /\ calls = 2
    /\ reads = 1
    /\ failed = 0
    /\ call.op = "add"
    /\ call.result = "ok"

\* C1: an addPartition that succeeds on an instance whose table was loaded by read()
\* changes exactly one 16-byte slot of the table on disk, and every slot that held
\* a non-empty entry before the call holds the same bytes after it.
C1_AppendPersistsOnlyNewSlot ==
    AppendAfterRead =>
        /\ Cardinality(ChangedSlots) = 1
        /\ \A i \in DOMAIN table :
              ~isEmtpy(call.preTable[i]) => table[i] = call.preTable[i]

\* C2: addPartition on a list of MAX_PARTITIONS entries fails with TableFull, does
\* not seek and does not write, and leaves m_entries and the four slots on disk as
\* they were.
C2_TableFullChangesNothing ==
    (call.op = "add" /\ Len(call.preEntries) = MAX_PARTITIONS) =>
        /\ call.result = "TableFull"
        /\ call.seeks = 0
        /\ call.writes = 0
        /\ call.sought = -1
        /\ m_entries = call.preEntries
        /\ table = call.preTable

C2_Witness ==
    /\ call.op = "add"
    /\ Len(call.preEntries) = MAX_PARTITIONS
    /\ call.result = "TableFull"
    /\ \A i \in DOMAIN table : ~isEmtpy(table[i])

\* The arguments of the last call are sector aligned, the size is positive and
\* both sector numbers fit 32 bits.
ValidRange ==
    /\ Aligned(call.offset)
    /\ Aligned(call.size)
    /\ call.size # U64(0)
    /\ FitsU32(Div(call.offset, SECTOR_SIZE))
    /\ FitsU32(Div(call.size, SECTOR_SIZE))

\* C4: after a successful addPartition(offset, size) with a valid range on a list of
\* fewer than MAX_PARTITIONS entries, reading the table from the device yields an
\* entry whose bytes 8..11 decode, little-endian, to offset / 512 and whose bytes
\* 12..15 decode to size / 512.
C4_AppendThenReadRoundTrip ==
    (call.op = "add" /\ call.result = "ok" /\ ValidRange
        /\ Len(call.preEntries) < MAX_PARTITIONS) =>
        LET onDisk == ReadSlots(table, 0, MAX_PARTITIONS)
        IN  \E i \in 1..Len(onDisk) :
              /\ FromLittleEndian(onDisk[i], 8) = Div(call.offset, SECTOR_SIZE)
              /\ FromLittleEndian(onDisk[i], 12) = Div(call.size, SECTOR_SIZE)

\* A successful append whose sector numbers need all four bytes of their fields.
C4_Witness ==
    /\ call.op = "add"
    /\ call.result = "ok"
    /\ ValidRange
    /\ Div(call.offset, SECTOR_SIZE) = MaxU32
    /\ Len(m_entries) = 3
    /\ table[2][9] = 255 /\ table[2][12] = 255

\* C8: m_entries never holds more than MAX_PARTITIONS entries.
C8_AtMostFourEntries == Len(m_entries) <= MAX_PARTITIONS

\* The packed CHS bytes of sector s under the geometry NUM_HEADS x NUM_SECTORS.
ChsOfSector(s) ==
    PackChs(Mod(Div(s, NUM_SECTORS), NUM_HEADS),
            Mod(s, NUM_SECTORS) + 1,
            Div(s, NUM_HEADS * NUM_SECTORS)[1])

\* Sector s lies in a cylinder below 1024.
ChsAddressable(s) == Less(Div(s, NUM_HEADS * NUM_SECTORS), U64(1024))

\* C10: the entry addPartition builds for a sector aligned range whose first sector
\* and end sector lie in cylinders below 1024 carries, in bytes 1..3, the packed CHS
\* of sector offset / 512 and, in bytes 5..7, the packed CHS of sector
\* (offset + size) / 512.
C10_ChsOfSectorIndex ==
    (call.op = "add" /\ call.result = "ok" /\ Aligned(call.offset) /\ Aligned(call.size)
        /\ ChsAddressable(Div(call.offset, SECTOR_SIZE))
        /\ ChsAddressable(Div(Add(call.offset, call.size), SECTOR_SIZE))) =>
        LET entry == m_entries[Len(m_entries)]
        IN  /\ SubSeq(entry, 2, 4) = ChsOfSector(Div(call.offset, SECTOR_SIZE))
            /\ SubSeq(entry, 6, 8)
                 = ChsOfSector(Div(Add(call.offset, call.size), SECTOR_SIZE))

-----------------------------------------------------------------------------
(* Properties of the overlay formatter, checked under SpecFormat. *)

Formatted == fmt.op = "format"

\* The size is sector aligned, a partition entry can describe it, and it holds the
\* header and at least one more sector.
SupportedSize ==
    /\ Aligned(fmt.size)
    /\ FitsU32(fmt.layout.numSectors)
    /\ LessEq(Add(fmt.layout.headerSize, U64(SECTOR_SIZE)), fmt.size)

\* C3: a formatting run in which some write returned another count than requested
\* ends in WriteFailure.
C3_ShortWriteIsFatal ==
    (Formatted /\ fmt.run.faulted) => fmt.outcome = "WriteFailure"

\* C5: a formatting run of a supported size in which every write is complete
\* succeeds; the bytes written add up to headerSize + fileZeros; the padding of a
\* FAT, 512 * fatlength - used, is not negative; no progress report shows more
\* bytes written than the total; and the last report shows exactly the total.
C5_BytesWrittenIsTotal ==
    (Formatted /\ fmt.seekOk /\ ~fmt.run.faulted /\ SupportedSize) =>
        /\ fmt.outcome = "ok"
        /\ ~fmt.run.overflow
        /\ fmt.run.physical = Add(fmt.layout.headerSize, fmt.layout.fileZeros)
        /\ LessEq(Used(fmt.layout.nextFreeCluster),
                  Mul(fmt.layout.fatlength, SECTOR_SIZE))
        /\ ~fmt.run.exceeded
        /\ fmt.run.progress
        /\ m_bytesWritten = m_totalBytes
        /\ m_totalBytes = Add(fmt.layout.headerSize, fmt.layout.fileZeros)

\* The sectors per cluster of the threshold table read as {1, 8, 16, 32}.
TableSectorsPerCluster(size) ==
    LET mb == Div(Div(size, 1024), 1024)
    IN  IF LessEq(mb, U64(260)) THEN 1
        ELSE IF LessEq(mb, U64(8192)) THEN 8
        ELSE IF LessEq(mb, U64(16384)) THEN 16
        ELSE 32

\* C6: the sectors per cluster chosen are 1 up to 260 MB, 8 up to 8192 MB, 16 up to
\* 16384 MB and 32 above, and so always one of 1, 8, 16, 32.
C6_SectorsPerClusterTable ==
    Formatted =>
        /\ fmt.layout.sectorsPerCluster \in {1, 8, 16, 32}
        /\ fmt.layout.sectorsPerCluster = TableSectorsPerCluster(fmt.size)
        /\ fmt.bootSector[14] = fmt.layout.sectorsPerCluster

\* C7: for a supported size the FAT length is a multiple of the sectors per cluster
\* and at least ceil((clusters + 2) * 4 / 512).
C7_FatLengthAligned ==
    (Formatted /\ SupportedSize) =>
        /\ Mod(fmt.layout.fatlength, fmt.layout.sectorsPerCluster) = 0
        /\ LessEq(Div(Add(Mul(Add(fmt.layout.clusters, U64(2)), 4),
                          U64(SECTOR_SIZE - 1)), SECTOR_SIZE),
                  fmt.layout.fatlength)

\* The FAT date word: day in bits 0..4, month in bits 5..8, year - 1980 in bits 9..15.
DosDate(dt) == dt.day + (dt.month * 32) + ((dt.year - 1980) * 512)

\* C9: the two date bytes of every time stamp of the volume label entry and of the
\* file entry are the low and the high byte of day | month << 5 | (year - 1980) << 9.
C9_FatDateWord ==
    (Formatted /\ fmt.outcome = "ok" /\ fmt.dt.year \in 1980..2107) =>
        \A at \in {17, 19, 25} :
            /\ fmt.rootDir[at] = DosDate(fmt.dt) % 256
            /\ fmt.rootDir[at + 1] = DosDate(fmt.dt) \div 256
            /\ fmt.fileEntry[at] = DosDate(fmt.dt) % 256
            /\ fmt.fileEntry[at + 1] = DosDate(fmt.dt) \div 256

=============================================================================
